---- MODULE Spec2Model ----
(***************************************************************************)
(* Sensor-Graph: two telemetry generators that write readings to MySQL.    *)
(*   sensor_inserter.py    the random-walk program (main, insert_reading,  *)
(*                         connect_db, generate_random_reading,            *)
(*                         vary_reading, handle_shutdown)                  *)
(*   insert_wave_mysql.py  the wave program (main, try_reconnect,          *)
(*                         generate_values, clamp)                         *)
(* Spec models the two main loops (one run is one of the two programs).    *)
(* The database driver is the environment: every connect, insert,          *)
(* is_connected and cursor call draws its outcome with \E.                 *)
(***************************************************************************)
EXTENDS Integers, Sequences, FiniteSets, TLC

VARIABLES
    program,        \* which script this run executes
    interval,       \* the time between two passes, in tenths of a second:
                    \* args.interval (wave), INTERVAL_SECONDS (random walk)
    pc,             \* position of main() in its source
    conn,           \* main's local `conn`: a handle id, or None
    cur,            \* wave main's local `cur`: the handle its cursor is bound to
    closing_conn,   \* the handle captured by `with closing(conn)` (wave, line 135)
    open_handles,   \* handles returned by a connect, not closed since and not
                    \* reported disconnected by is_connected()
    stop_requested, \* sensor_inserter.py's module-level flag (line 45)
    crashing,       \* an exception that no handler of main catches is propagating
    tick,           \* number of the current pass of the while loop
    sensor,         \* index of the `for sensor in SENSOR_NAMES` loop
    reading,        \* the locals holding the generated values of this pass
    last_readings,  \* sensor_inserter.py's dict last_readings
    i,              \* the counter of the wait loop (line 261) / of try_reconnect (line 114)
    ret,            \* where try_reconnect was called from: "startup" or "loop"
    \* ---- observations (history of the run, no effect on control) ----
    att,            \* the latest insert attempt
    inserts,        \* insert attempts made for the current reading
    attempted,      \* per sensor, the pass of the latest reading given to an insert
    first,          \* outcome of the first insert of the current reading
    reconnect,      \* outcome of the reconnect call made for the current reading
    retry,          \* outcome of the retried insert of the current reading
    reconnects,     \* reconnect calls made for the current reading
    opens,          \* connection-open attempts made for the current reading
    conn_at_first,  \* `conn` when the first insert of the current reading was made
    cancelled,      \* KeyboardInterrupt was delivered in the wave program's loop
    cancel_pc,      \* where the run was when cancellation was first requested
    after_cancel,   \* what happened since: [slices, generated, inserts]
    startup,        \* outcome of the initial connection
    diagnostics,    \* error records (logging.error / print) written for the current reading
    waited,         \* length of the latest sleep between two passes, in tenths of a second
    now,            \* the clock: blocking calls made since the pass began
    recorded_at,    \* main's local `recorded_at` (sensor_inserter.py, line 224)
    \* ---- the values (SpecGen: sensor_inserter.py, SpecWave: insert_wave_mysql.py) ----
    gen_field,      \* the field of the reading that is followed
    gen_value,      \* last_readings[sensor]'s value of that field
    gen_regime,     \* the regime that produced it
    gen_step,       \* readings generated so far
    gen_raw,        \* the value before rounding from which gen_value was made
    elapsed,        \* wave main's `elapsed` (line 149), in seconds
    period,         \* args.period, in seconds
    wave            \* what generate_values returned

vars == <<program, interval, pc, conn, cur, closing_conn, open_handles, stop_requested,
          crashing, tick, sensor, reading, last_readings, i, ret, att, inserts,
          attempted, first,
          reconnect, retry, reconnects, opens, conn_at_first, cancelled,
          cancel_pc, after_cancel, startup, diagnostics, waited, now, recorded_at,
          gen_field, gen_value, gen_regime, gen_step, gen_raw,
          elapsed, period, wave>>

loop_vars == <<program, interval, pc, conn, cur, closing_conn, open_handles, stop_requested,
               crashing, tick, sensor, reading, last_readings, i, ret, att, inserts,
               attempted, first, reconnect, retry, reconnects, opens, conn_at_first,
               cancelled, cancel_pc, after_cancel, startup, diagnostics, waited,
               now, recorded_at>>
gen_vars == <<gen_field, gen_value, gen_regime, gen_step, gen_raw>>
wave_vars == <<elapsed, period, wave>>
values == <<gen_vars, wave_vars>>

(***************************************************************************)
(* Bounds of the model.                                                    *)
(***************************************************************************)
\* passes of the while loop that are explored
MaxTicks == 2
\* length of the list SENSOR_NAMES (the list is configuration)
NumSensors == 3

(***************************************************************************)
(* Program constants.                                                      *)
(***************************************************************************)
INTERVAL_SECONDS == 4
attempts == 3

None == 0

\* the builtin max of two numbers
max(a, b) == IF a > b THEN a ELSE b

\* the values of --interval that are explored, in tenths of a second: the
\* default of 4 s, and half a second
Intervals == {INTERVAL_SECONDS * 10, 5}
SENSOR_NAMES == 1 .. NumSensors
WaitSlices == INTERVAL_SECONDS * 10

\* In Spec a reading is known by where it comes from: the sensor and the pass it
\* was generated for (pass 0: the readings of line 208), the regime, and, in the
\* continuation regime, the pass of the reading it was derived from. SpecGen and
\* SpecWave below model the values.
Reading(s, t, regime, prev) == [sensor |-> s, tick |-> t, regime |-> regime, prev |-> prev]

\* the name of the reading generated for sensor s in pass t, as last_readings
\* holds it and as a continuation reading remembers where it came from
Key(s, t) == [sensor |-> s, tick |-> t]
NoKey == Key(0, 0)
NoReading == Reading(0, 0, "none", NoKey)
NoAttempt ==
    [sensor |-> 0, tick |-> 0, reading |-> NoReading, recorded_at |-> 0, conn |-> None,
     retry |-> FALSE]

NoCancelCount == [slices |-> 0, generated |-> 0, inserts |-> 0]


(***************************************************************************)
(* The driver (environment).                                               *)
(***************************************************************************)
\* what an insert (cursor, execute, commit) on handle h can do: a handle the
\* program has closed cannot store anything.
InsertOutcomes(h) ==
    IF h \in open_handles THEN {"ok", "transient", "unrecoverable"}
    ELSE {"transient", "unrecoverable"}

\* the handle a successful connect returns: a name no live reference uses
Referenced == open_handles \cup {conn, cur, closing_conn, conn_at_first, att.conn}
NewHandle == CHOOSE h \in 1 .. Cardinality(Referenced) + 1 : h \notin Referenced

Requested == stop_requested \/ cancelled

\* the observation of one insert attempt
Attempt(h, again) ==
    [sensor |-> sensor, tick |-> tick, reading |-> reading, recorded_at |-> recorded_at,
     conn |-> h, retry |-> again]

\* now_str (lines 60-62): the reading of the clock
now_str == now

\* the error records one step writes: one when it failed, none when it did not
Logged(failed) == IF failed THEN 1 ELSE 0

\* note an insert attempt
Record(a) ==
    /\ att' = a
    /\ inserts' = inserts + 1
    /\ attempted' = [attempted EXCEPT ![a.reading.sensor] = a.reading.tick]

Count(field) ==
    IF Requested THEN [after_cancel EXCEPT ![field] = @ + 1] ELSE after_cancel

NoValues == [moisture |-> 0, temperature |-> 0, ph |-> 0, battery |-> 0, made |-> FALSE]

\* the values are not followed
NoGen ==
    /\ gen_field = "none" /\ gen_value = 0 /\ gen_regime = "none" /\ gen_step = 0
    /\ gen_raw = [q |-> 0, f |-> 0]
NoWave == elapsed = 0 /\ period = 0 /\ wave = NoValues

\* main has not started
LoopInit ==
    /\ pc = "start"
    /\ conn = None
    /\ cur = None
    /\ closing_conn = None
    /\ open_handles = {}
    /\ stop_requested = FALSE
    /\ crashing = FALSE
    /\ tick = 0
    /\ sensor = 0
    /\ reading = NoReading
    /\ last_readings = [s \in SENSOR_NAMES |-> NoKey]
    /\ i = 0
    /\ ret = "startup"
    /\ att = NoAttempt
    /\ inserts = 0
    /\ attempted = [s \in SENSOR_NAMES |-> 0]
    /\ first = "none"
    /\ reconnect = "none"
    /\ retry = "none"
    /\ reconnects = 0
    /\ opens = 0
    /\ conn_at_first = None
    /\ cancelled = FALSE
    /\ cancel_pc = "none"
    /\ after_cancel = NoCancelCount
    /\ startup = "none"
    /\ diagnostics = 0
    /\ waited = 0
    /\ now = 0
    /\ recorded_at = 0

\* the configured interval: the constant of line 35, or --interval (line 65)
Init ==
    /\ program \in {"sensor_inserter", "insert_wave_mysql"}
    /\ interval \in (IF program = "sensor_inserter" THEN {INTERVAL_SECONDS * 10}
                                                    ELSE Intervals)
    /\ LoopInit
    /\ NoGen
    /\ NoWave

attempt_history == <<att, inserts, attempted>>
history == <<att, inserts, attempted, first, reconnect, retry, reconnects, opens, conn_at_first>>
cancel_history == <<cancelled, cancel_pc, after_cancel>>
wave_locals == <<cur, closing_conn, ret>>
extra == <<startup, diagnostics, waited, now, recorded_at>>

(***************************************************************************)
(* sensor_inserter.py                                                      *)
(***************************************************************************)
RW == program = "sensor_inserter"

\* connect_db (lines 48-57): a handle, or None when connect raises Error or the
\* new connection does not report is_connected().
connect_db(ok) == IF ok THEN NewHandle ELSE None

\* handle_shutdown (lines 189-192), installed for SIGINT and SIGTERM at 197-198.
handle_shutdown ==
    /\ RW
    /\ pc \notin {"stopped", "crashed", "failed_start"}
    /\ ~stop_requested
    /\ stop_requested' = TRUE
    /\ cancel_pc' = pc
    /\ UNCHANGED <<values, program, interval, extra, pc, conn, open_handles, crashing, tick, sensor,
                   reading, last_readings, i, history, wave_locals, cancelled,
                   after_cancel>>

\* rw_connect without the check of lines 201-203
rw_connect_unchecked ==
    /\ RW /\ pc = "start"
    /\ \E ok \in BOOLEAN :
         /\ conn' = connect_db(ok)
         /\ IF ok
            THEN /\ open_handles' = open_handles \cup {NewHandle}
                 /\ last_readings' = [s \in SENSOR_NAMES |-> Key(s, 0)]
                 /\ startup' = "ok"
                 /\ pc' = "while"
            ELSE /\ UNCHANGED <<open_handles, last_readings>>
                 /\ startup' = "failed"
                 /\ pc' = "while"
    /\ UNCHANGED <<values, program, interval, diagnostics, waited, now, recorded_at, stop_requested, crashing, tick, sensor, reading, i,
                   history, wave_locals, cancel_history>>

\* main, lines 200-208: the initial connection, then one full-random reading per
\* sensor as the first "last reading".
rw_connect ==
    /\ RW /\ pc = "start"
    /\ \E ok \in BOOLEAN :
         /\ conn' = connect_db(ok)
         /\ IF ok
            THEN /\ open_handles' = open_handles \cup {NewHandle}
                 /\ last_readings' = [s \in SENSOR_NAMES |-> Key(s, 0)]
                 /\ startup' = "ok"
                 /\ pc' = "while"
            ELSE /\ UNCHANGED <<open_handles, last_readings>>
                 /\ startup' = "failed"
                 /\ pc' = "failed_start"
    /\ UNCHANGED <<values, program, interval, diagnostics, waited, now, recorded_at, stop_requested, crashing, tick, sensor, reading, i,
                   history, wave_locals, cancel_history>>

\* line 211: while not stop_requested
rw_while ==
    /\ RW /\ pc = "while"
    /\ IF stop_requested
       THEN /\ pc' = "finally"
            /\ UNCHANGED <<tick, sensor, now>>
       ELSE /\ tick < MaxTicks
            /\ tick' = tick + 1
            /\ sensor' = 1
            /\ now' = 0
            /\ pc' = "generate"
    /\ UNCHANGED <<values, program, interval, startup, diagnostics, waited, recorded_at, conn, open_handles, stop_requested, crashing,
                   reading, last_readings, i, history, wave_locals, cancel_history>>

\* lines 213-224: the Bernoulli draw picks the regime; the continuation regime
\* reads last_readings[sensor].
rw_generate ==
    /\ RW /\ pc = "generate"
    /\ \E regime \in {"random", "vary"} :
         reading' = Reading(sensor, tick, regime,
                            IF regime = "vary" THEN last_readings[sensor] ELSE NoKey)
    /\ first' = "none" /\ reconnect' = "none" /\ retry' = "none"
    /\ diagnostics' = 0
    /\ recorded_at' = now_str
    /\ reconnects' = 0 /\ opens' = 0 /\ conn_at_first' = None /\ inserts' = 0
    /\ after_cancel' = Count("generated")
    /\ pc' = "insert"
    /\ UNCHANGED <<values, program, interval, startup, waited, now, conn, open_handles, stop_requested, crashing,
                   tick, sensor, last_readings, i, att, attempted, wave_locals,
                   cancelled, cancel_pc>>

\* insert_reading (lines 170-186) returns False exactly when the driver raises
\* Error, whatever its class, and then has logged the error (line 181).
insert_reading(outcome) == outcome = "ok"

\* lines 227-230: the first insert. With conn = None, conn.cursor() raises
\* AttributeError, which `except Error` (line 180) does not catch: it leaves
\* insert_reading and the while loop, through the finally clause.
rw_insert ==
    /\ RW /\ pc = "insert"
    /\ Record(Attempt(conn, FALSE))
    /\ conn_at_first' = conn
    /\ now' = now + 1
    /\ after_cancel' = Count("inserts")
    /\ IF conn = None
       THEN /\ crashing' = TRUE
            /\ first' = "attribute_error"
            /\ UNCHANGED diagnostics
            /\ pc' = "finally"
       ELSE /\ \E outcome \in InsertOutcomes(conn) :
                 /\ first' = outcome
                 /\ diagnostics' = diagnostics + Logged(~insert_reading(outcome))
                 /\ pc' = IF insert_reading(outcome) THEN "update_last" ELSE "close_old"
            /\ UNCHANGED crashing
    /\ UNCHANGED <<values, program, interval, startup, waited, recorded_at, conn, open_handles, stop_requested, tick, sensor,
                   reading, last_readings, i, reconnect, retry, reconnects, opens,
                   wave_locals, cancelled, cancel_pc>>

\* lines 232-236: the old handle is closed when it reports is_connected(), and
\* is a dead connection when it does not: either way it is open no longer.
rw_close_old ==
    /\ RW /\ pc = "close_old"
    /\ open_handles' = open_handles \ {conn}
    /\ pc' = "reconnect"
    /\ UNCHANGED <<values, program, interval, extra, conn, stop_requested, crashing, tick, sensor,
                   reading, last_readings, i, history, wave_locals, cancel_history>>

\* lines 237-238: conn = connect_db(); if conn: retry. connect_db logs an error
\* when connect raised (line 56) and nothing when the new connection does not
\* report is_connected().
rw_reconnect ==
    /\ RW /\ pc = "reconnect"
    /\ \E ok \in BOOLEAN :
         /\ conn' = connect_db(ok)
         /\ \E raised \in (IF ok THEN {FALSE} ELSE BOOLEAN) :
              diagnostics' = diagnostics + Logged(raised)
         /\ open_handles' = IF ok THEN open_handles \cup {NewHandle} ELSE open_handles
         /\ reconnect' = IF ok THEN "ok" ELSE "failed"
         /\ pc' = IF connect_db(ok) # None THEN "retry" ELSE "update_last"
    /\ reconnects' = reconnects + 1
    /\ now' = now + 1
    /\ opens' = opens + 1
    /\ UNCHANGED <<values, program, interval, startup, waited, recorded_at, stop_requested, crashing, tick, sensor, reading,
                   last_readings, i, attempt_history, first, retry, conn_at_first,
                   wave_locals, cancel_history>>

\* rw_retry that takes a new timestamp for the retried insert
rw_retry_restamped ==
    /\ RW /\ pc = "retry"
    /\ Record([Attempt(conn, TRUE) EXCEPT !.recorded_at = now_str])
    /\ after_cancel' = Count("inserts")
    /\ \E outcome \in InsertOutcomes(conn) :
         /\ retry' = IF insert_reading(outcome) THEN "ok" ELSE "failed"
         /\ diagnostics' = diagnostics + Logged(~insert_reading(outcome))
    /\ now' = now + 1
    /\ pc' = "update_last"
    /\ UNCHANGED <<values, program, interval, startup, waited, recorded_at, conn, open_handles, stop_requested, crashing,
                   tick, sensor, reading, last_readings, i, first, reconnect,
                   reconnects, opens, conn_at_first, wave_locals, cancelled, cancel_pc>>

\* lines 239-252: the retried insert, with the locals of the first one; its
\* result is not looked at.
rw_retry ==
    /\ RW /\ pc = "retry"
    /\ Record(Attempt(conn, TRUE))
    /\ after_cancel' = Count("inserts")
    /\ \E outcome \in InsertOutcomes(conn) :
         /\ retry' = IF insert_reading(outcome) THEN "ok" ELSE "failed"
         /\ diagnostics' = diagnostics + Logged(~insert_reading(outcome))
    /\ now' = now + 1
    /\ pc' = "update_last"
    /\ UNCHANGED <<values, program, interval, startup, waited, recorded_at, conn, open_handles, stop_requested, crashing,
                   tick, sensor, reading, last_readings, i, first, reconnect,
                   reconnects, opens, conn_at_first, wave_locals, cancelled, cancel_pc>>

\* rw_update_last that keeps the reading only when an insert stored it
rw_update_last_if_stored ==
    /\ RW /\ pc = "update_last"
    /\ last_readings' = IF first = "ok" \/ retry = "ok"
                        THEN [last_readings EXCEPT ![sensor] = Key(reading.sensor, reading.tick)]
                        ELSE last_readings
    /\ pc' = "stop_check"
    /\ UNCHANGED <<values, program, interval, extra, conn, open_handles, stop_requested,
                   crashing, tick, sensor, reading, i, history, wave_locals,
                   cancel_history>>

\* rw_update_last that files every reading under the first sensor of the list
rw_update_last_first_key ==
    /\ RW /\ pc = "update_last"
    /\ last_readings' = [last_readings EXCEPT ![1] = Key(reading.sensor, reading.tick)]
    /\ pc' = "stop_check"
    /\ UNCHANGED <<values, program, interval, extra, conn, open_handles, stop_requested, crashing,
                   tick, sensor, reading, i, history, wave_locals, cancel_history>>

\* line 254
rw_update_last ==
    /\ RW /\ pc = "update_last"
    /\ last_readings' = [last_readings EXCEPT ![sensor] = Key(reading.sensor, reading.tick)]
    /\ pc' = "stop_check"
    /\ UNCHANGED <<values, program, interval, extra, conn, open_handles, stop_requested, crashing,
                   tick, sensor, reading, i, history, wave_locals, cancel_history>>

\* lines 257-258 and the advance of the for loop of line 212
rw_stop_check ==
    /\ RW /\ pc = "stop_check"
    /\ IF ~stop_requested /\ sensor < NumSensors
       THEN /\ sensor' = sensor + 1
            /\ pc' = "generate"
            /\ UNCHANGED i
       ELSE /\ i' = 0
            /\ pc' = "wait_check"
            /\ UNCHANGED sensor
    /\ UNCHANGED <<values, program, interval, extra, conn, open_handles, stop_requested, crashing,
                   tick, reading, last_readings, history, wave_locals, cancel_history>>

\* rw_wait_check without the stop check of lines 262-263
rw_wait_check_no_stop ==
    /\ RW /\ pc = "wait_check"
    /\ pc' = IF i < WaitSlices THEN "wait_sleep" ELSE "while"
    /\ UNCHANGED <<values, program, interval, extra, conn, open_handles, stop_requested, crashing,
                   tick, sensor, reading, last_readings, i, history, wave_locals,
                   cancel_history>>

\* lines 261-263: the head of the wait loop and its stop check
rw_wait_check ==
    /\ RW /\ pc = "wait_check"
    /\ pc' = IF i < WaitSlices /\ ~stop_requested THEN "wait_sleep" ELSE "while"
    /\ UNCHANGED <<values, program, interval, extra, conn, open_handles, stop_requested, crashing,
                   tick, sensor, reading, last_readings, i, history, wave_locals,
                   cancel_history>>

\* line 264: time.sleep(0.1)
rw_wait_sleep ==
    /\ RW /\ pc = "wait_sleep"
    /\ i' = i + 1
    /\ after_cancel' = Count("slices")
    /\ pc' = "wait_check"
    /\ UNCHANGED <<values, program, interval, extra, conn, open_handles, stop_requested, crashing,
                   tick, sensor, reading, last_readings, history, wave_locals,
                   cancelled, cancel_pc>>

\* lines 266-272: close the connection when there is one and it is connected.
\* An exception on its way out of main ends the program with its traceback.
rw_finally ==
    /\ RW /\ pc = "finally"
    /\ open_handles' = open_handles \ {conn}
    /\ diagnostics' = diagnostics + Logged(crashing)
    /\ pc' = IF crashing THEN "crashed" ELSE "stopped"
    /\ UNCHANGED <<values, program, interval, startup, waited, now, recorded_at, conn, stop_requested, crashing, tick, sensor,
                   reading, last_readings, i, history, wave_locals, cancel_history>>


(***************************************************************************)
(* insert_wave_mysql.py                                                    *)
(***************************************************************************)
WAVE == program = "insert_wave_mysql"

\* the positions of main that lie inside `while True` (lines 148-191)
Running == {"generate", "insert", "close_old", "open_conn", "reconnect_delay",
            "retry", "sleep", "sleep_fail"}

\* line 130: conn = try_reconnect(args)
w_start ==
    /\ WAVE /\ pc = "start"
    /\ i' = 0
    /\ ret' = "startup"
    /\ pc' = "open_conn"
    /\ UNCHANGED <<values, program, interval, extra, conn, cur, closing_conn, open_handles,
                   stop_requested, crashing, tick, sensor, reading, last_readings,
                   history, cancel_history>>

\* try_reconnect, lines 115-119: one open_conn call
try_reconnect_open ==
    /\ WAVE /\ pc = "open_conn"
    /\ now' = now + 1
    /\ opens' = IF ret = "loop" THEN opens + 1 ELSE opens
    /\ \E ok \in BOOLEAN :
         IF ok
         THEN /\ conn' = NewHandle
              /\ open_handles' = open_handles \cup {NewHandle}
              /\ reconnect' = IF ret = "loop" THEN "ok" ELSE reconnect
              /\ startup' = IF ret = "startup" THEN "ok" ELSE startup
              /\ pc' = IF ret = "loop" THEN "retry" ELSE "setup"
         ELSE /\ pc' = "reconnect_delay"
              /\ UNCHANGED <<conn, open_handles, reconnect, startup>>
    /\ UNCHANGED <<values, program, interval, diagnostics, waited, recorded_at, cur, closing_conn, stop_requested, crashing, tick, sensor,
                   reading, last_readings, i, ret, attempt_history, first, retry,
                   reconnects, conn_at_first, cancel_history>>

\* try_reconnect_delay with one attempt more than `attempts`
try_reconnect_delay_one_more ==
    /\ WAVE /\ pc = "reconnect_delay"
    /\ i' = i + 1
    /\ now' = now + 1
    /\ IF i + 1 <= attempts
       THEN /\ pc' = "open_conn"
            /\ UNCHANGED <<reconnect, startup, diagnostics>>
       ELSE IF ret = "startup"
            THEN /\ pc' = "failed_start"
                 /\ startup' = "failed"
                 /\ UNCHANGED <<reconnect, diagnostics>>
            ELSE /\ pc' = "sleep_fail"
                 /\ reconnect' = "failed"
                 /\ diagnostics' = diagnostics + 1
                 /\ UNCHANGED startup
    /\ UNCHANGED <<values, program, interval, waited, recorded_at, conn, cur, closing_conn, open_handles,
                   stop_requested, crashing, tick, sensor, reading, last_readings,
                   ret, attempt_history, first, retry, reconnects, opens,
                   conn_at_first, cancel_history>>

\* try_reconnect, line 120, then the next attempt (line 114) or, after the last
\* one, raise last_exc (line 121): at startup main exits (lines 131-133), in the
\* loop the handler of line 179 takes it.
try_reconnect_delay ==
    /\ WAVE /\ pc = "reconnect_delay"
    /\ i' = i + 1
    /\ now' = now + 1
    /\ IF i + 1 < attempts
       THEN /\ pc' = "open_conn"
            /\ UNCHANGED <<reconnect, startup, diagnostics>>
       ELSE IF ret = "startup"
            THEN /\ pc' = "failed_start"
                 /\ startup' = "failed"
                 /\ UNCHANGED <<reconnect, diagnostics>>
            ELSE /\ pc' = "sleep_fail"
                 /\ reconnect' = "failed"
                 /\ diagnostics' = diagnostics + 1
                 /\ UNCHANGED startup
    /\ UNCHANGED <<values, program, interval, waited, recorded_at, conn, cur, closing_conn, open_handles,
                   stop_requested, crashing, tick, sensor, reading, last_readings,
                   ret, attempt_history, first, retry, reconnects, opens,
                   conn_at_first, cancel_history>>

\* lines 135-146: enter `with closing(conn)`, create the cursor, optionally create
\* the table; a failing CREATE TABLE returns (line 144).
w_setup ==
    /\ WAVE /\ pc = "setup"
    /\ closing_conn' = conn
    /\ cur' = conn
    /\ sensor' = 1
    /\ \E create_table_failed \in BOOLEAN :
         pc' = IF create_table_failed THEN "with_exit" ELSE "generate"
    /\ UNCHANGED <<values, program, interval, extra, conn, open_handles, stop_requested, crashing,
                   tick, reading, last_readings, i, ret, history, cancel_history>>

\* lines 148-150: the head of `while True` and generate_values
w_generate ==
    /\ WAVE /\ pc = "generate"
    /\ tick < MaxTicks
    /\ tick' = tick + 1
    /\ reading' = Reading(sensor, tick + 1, "wave", NoKey)
    /\ first' = "none" /\ reconnect' = "none" /\ retry' = "none"
    /\ diagnostics' = 0
    /\ now' = 0
    /\ reconnects' = 0 /\ opens' = 0 /\ conn_at_first' = None /\ inserts' = 0
    /\ after_cancel' = Count("generated")
    /\ pc' = "insert"
    /\ UNCHANGED <<values, program, interval, startup, waited, recorded_at, conn, cur, closing_conn, open_handles,
                   stop_requested, crashing, sensor, last_readings, i, ret, att,
                   attempted, cancelled, cancel_pc>>

\* which handler of lines 161-186 takes the failure of the first insert
w_handler(outcome) ==
    CASE outcome = "ok" -> "sleep"
      [] outcome = "transient" -> "close_old"
      [] OTHER -> "sleep_fail"

\* w_insert with handlers that print nothing
w_insert_silent ==
    /\ WAVE /\ pc = "insert"
    /\ Record(Attempt(cur, FALSE))
    /\ conn_at_first' = conn
    /\ now' = now + 1
    /\ after_cancel' = Count("inserts")
    /\ \E outcome \in InsertOutcomes(cur) :
         /\ first' = outcome
         /\ UNCHANGED diagnostics
         /\ pc' = w_handler(outcome)
    /\ UNCHANGED <<values, program, interval, startup, waited, recorded_at, conn, cur, closing_conn, open_handles,
                   stop_requested, crashing, tick, sensor, reading, last_readings,
                   i, ret, reconnect, retry, reconnects, opens, cancelled, cancel_pc>>

\* lines 152-160: cur.execute and conn.commit; the handlers of lines 161 and 183
\* print the error
w_insert ==
    /\ WAVE /\ pc = "insert"
    /\ Record(Attempt(cur, FALSE))
    /\ conn_at_first' = conn
    /\ now' = now + 1
    /\ after_cancel' = Count("inserts")
    /\ \E outcome \in InsertOutcomes(cur) :
         /\ first' = outcome
         /\ diagnostics' = diagnostics + Logged(outcome # "ok")
         /\ pc' = w_handler(outcome)
    /\ UNCHANGED <<values, program, interval, startup, waited, recorded_at, conn, cur, closing_conn, open_handles,
                   stop_requested, crashing, tick, sensor, reading, last_readings,
                   i, ret, reconnect, retry, reconnects, opens, cancelled, cancel_pc>>

\* lines 163-168: best-effort close of the old handle, then the call of
\* try_reconnect
w_close_old ==
    /\ WAVE /\ pc = "close_old"
    /\ open_handles' = open_handles \ {conn}
    /\ reconnects' = reconnects + 1
    /\ i' = 0
    /\ ret' = "loop"
    /\ pc' = "open_conn"
    /\ UNCHANGED <<values, program, interval, extra, conn, cur, closing_conn, stop_requested, crashing,
                   tick, sensor, reading, last_readings, attempt_history, first,
                   reconnect, retry, opens, conn_at_first, cancel_history>>

\* w_retry with lines 181-182 (sleep, continue) run after a stored retry too
w_retry_then_continue ==
    /\ WAVE /\ pc = "retry"
    /\ after_cancel' = Count("inserts")
    /\ now' = now + 1
    /\ \E outcome \in InsertOutcomes(conn) \cup {"no_cursor"} :
         /\ cur' = IF outcome = "no_cursor" THEN cur ELSE conn
         /\ Record(Attempt(conn, TRUE))
         /\ retry' = IF outcome = "ok" THEN "ok" ELSE "failed"
         /\ diagnostics' = diagnostics + Logged(outcome # "ok")
         /\ pc' = "sleep_fail"
    /\ UNCHANGED <<values, program, interval, startup, waited, recorded_at, conn, closing_conn, open_handles, stop_requested,
                   crashing, tick, sensor, reading, last_readings, i, ret, first,
                   reconnect, reconnects, opens, conn_at_first, cancelled, cancel_pc>>

\* lines 169-177: a cursor on the new handle, execute, commit. When conn.cursor()
\* raises, `cur` keeps the old cursor.
w_retry ==
    /\ WAVE /\ pc = "retry"
    /\ after_cancel' = Count("inserts")
    /\ now' = now + 1
    /\ \E outcome \in InsertOutcomes(conn) \cup {"no_cursor"} :
         /\ cur' = IF outcome = "no_cursor" THEN cur ELSE conn
         /\ Record(Attempt(conn, TRUE))
         /\ retry' = IF outcome = "ok" THEN "ok" ELSE "failed"
         /\ diagnostics' = diagnostics + Logged(outcome # "ok")
         /\ pc' = IF outcome = "ok" THEN "sleep" ELSE "sleep_fail"
    /\ UNCHANGED <<values, program, interval, startup, waited, recorded_at, conn, closing_conn, open_handles, stop_requested,
                   crashing, tick, sensor, reading, last_readings, i, ret, first,
                   reconnect, reconnects, opens, conn_at_first, cancelled, cancel_pc>>

\* w_sleep that gives a dropped reading to the insert again in the next pass
w_sleep_replay ==
    /\ WAVE /\ pc \in {"sleep", "sleep_fail"}
    /\ waited' = IF pc = "sleep_fail" THEN max(10, interval) ELSE interval
    /\ after_cancel' = Count("slices")
    /\ pc' = IF pc = "sleep_fail" THEN "insert" ELSE "generate"
    /\ UNCHANGED <<values, program, interval, startup, diagnostics, now, recorded_at, conn, cur, closing_conn, open_handles,
                   stop_requested, crashing, tick, sensor, reading, last_readings,
                   i, ret, history, cancelled, cancel_pc>>

\* w_sleep with time.sleep(args.interval) on every path
w_sleep_no_floor ==
    /\ WAVE /\ pc \in {"sleep", "sleep_fail"}
    /\ waited' = interval
    /\ after_cancel' = Count("slices")
    /\ pc' = "generate"
    /\ UNCHANGED <<values, program, interval, startup, diagnostics, now, recorded_at, conn,
                   cur, closing_conn, open_handles,
                   stop_requested, crashing, tick, sensor, reading, last_readings,
                   i, ret, history, cancelled, cancel_pc>>

\* line 191, time.sleep(args.interval), after a stored reading; lines 181-182
\* and 185-186, time.sleep(max(1.0, args.interval)), after a dropped one; then
\* the next pass
w_sleep ==
    /\ WAVE /\ pc \in {"sleep", "sleep_fail"}
    /\ waited' = IF pc = "sleep_fail" THEN max(10, interval) ELSE interval
    /\ after_cancel' = Count("slices")
    /\ pc' = "generate"
    /\ UNCHANGED <<values, program, interval, startup, diagnostics, now, recorded_at, conn, cur, closing_conn, open_handles,
                   stop_requested, crashing, tick, sensor, reading, last_readings,
                   i, ret, history, cancelled, cancel_pc>>

\* where a KeyboardInterrupt raised at position p is caught: the bare `except:`
\* of line 165 catches BaseException, so an interrupt raised inside conn.close()
\* (line 164) is dropped and main goes on to line 168; everywhere else in the
\* loop only `except KeyboardInterrupt` (line 192) matches.
interrupt_target(p) == IF p = "close_old" THEN "open_conn" ELSE "finally"

\* SIGINT while main is in its loop
KeyboardInterrupt ==
    /\ WAVE /\ pc \in Running
    /\ cancelled' = TRUE
    /\ cancel_pc' = IF cancelled THEN cancel_pc ELSE pc
    /\ pc' = interrupt_target(pc)
    /\ IF interrupt_target(pc) = "open_conn"
       THEN /\ \E closed \in BOOLEAN :
                 open_handles' = IF closed THEN open_handles \ {conn} ELSE open_handles
            /\ reconnects' = reconnects + 1
            /\ i' = 0
            /\ ret' = "loop"
       ELSE UNCHANGED <<open_handles, reconnects, i, ret>>
    /\ UNCHANGED <<values, program, interval, extra, conn, cur, closing_conn, stop_requested, crashing,
                   tick, sensor, reading, last_readings, attempt_history, first,
                   reconnect, retry, opens, conn_at_first, after_cancel>>

\* lines 194-202: cur.close() and conn.close(), errors ignored
w_finally ==
    /\ WAVE /\ pc = "finally"
    /\ open_handles' = open_handles \ {conn}
    /\ pc' = "with_exit"
    /\ UNCHANGED <<values, program, interval, extra, conn, cur, closing_conn, stop_requested, crashing,
                   tick, sensor, reading, last_readings, i, ret, history,
                   cancel_history>>

\* leaving `with closing(conn)` (line 135) closes the handle it was entered with
w_with_exit ==
    /\ WAVE /\ pc = "with_exit"
    /\ open_handles' = open_handles \ {closing_conn}
    /\ pc' = "stopped"
    /\ UNCHANGED <<values, program, interval, extra, conn, cur, closing_conn, stop_requested, crashing,
                   tick, sensor, reading, last_readings, i, ret, history,
                   cancel_history>>

Next ==
    \/ handle_shutdown
    \/ rw_connect
    \/ rw_while
    \/ rw_generate
    \/ rw_insert
    \/ rw_close_old
    \/ rw_reconnect
    \/ rw_retry
    \/ rw_update_last
    \/ rw_stop_check
    \/ rw_wait_check
    \/ rw_wait_sleep
    \/ rw_finally
    \/ w_start
    \/ try_reconnect_open
    \/ try_reconnect_delay
    \/ w_setup
    \/ w_generate
    \/ w_insert
    \/ w_close_old
    \/ w_retry
    \/ w_sleep
    \/ KeyboardInterrupt
    \/ w_finally
    \/ w_with_exit

Spec == Init /\ [][Next]_vars


(***************************************************************************)
(* The values. A number before rounding is a pair [q, f]: q whole units of *)
(* the field's last kept decimal place and f thousandths of that unit      *)
(* (0 <= f < 1000), so that round() and the order of round and clamp are   *)
(* visible. A rounded value is the integer q.                              *)
(***************************************************************************)
Thousand == 10 ^ 3
Raw(q, f) == [q |-> q, f |-> f]

\* round(x, ndigits) of Python 3: to the nearest unit, an exact half to the even
\* neighbour.
round(r) ==
    IF 2 * r.f > Thousand \/ (2 * r.f = Thousand /\ r.q % 2 = 1) THEN r.q + 1 ELSE r.q

\* max(lo, x) and min(hi, x) of a number before rounding against a whole bound
raw_max(lo, r) == IF r.q < lo THEN Raw(lo, 0) ELSE r
raw_min(hi, r) == IF r.q >= hi THEN Raw(hi, 0) ELSE r

(***************************************************************************)
(* sensor_inserter.py: generate_random_reading and vary_reading. The nine  *)
(* fields are computed independently of each other (each from its own      *)
(* previous value and its own draw), so SpecGen follows one field of one   *)
(* sensor, any of the nine.                                                *)
(***************************************************************************)
Fields == {"latitude", "longitude", "moisture", "temperature", "ph", "ec",
           "nitrogen", "phosphorus", "potassium"}

\* the ndigits argument of round, lines 70-78 and 109-118
Digits(f) ==
    CASE f \in {"latitude", "longitude"} -> 7
      [] f \in {"moisture", "temperature", "ph"} -> 2
      [] OTHER -> 3

\* 1.0 in units of the field's last decimal place
Unit(f) == 10 ^ Digits(f)

\* the arguments of random.uniform, lines 70-78
UniformLo(f) ==
    CASE f = "latitude" -> -90 * Unit(f)
      [] f = "longitude" -> -180 * Unit(f)
      [] f = "temperature" -> -10 * Unit(f)
      [] OTHER -> 0

UniformHi(f) ==
    CASE f = "latitude" -> 90 * Unit(f)
      [] f = "longitude" -> 180 * Unit(f)
      [] f = "moisture" -> 100 * Unit(f)
      [] f = "temperature" -> 50 * Unit(f)
      [] f = "ph" -> 14 * Unit(f)
      [] f = "ec" -> 5 * Unit(f)
      [] f = "nitrogen" -> 100 * Unit(f)
      [] f = "phosphorus" -> 100 * Unit(f)
      [] OTHER -> 200 * Unit(f)

\* the sigma of random.gauss, lines 109-118, in units of the last decimal place:
\* 0.00001, 0.5, 0.15, 0.02, 0.01, 0.05, 0.03, 0.1
Sigma(f) ==
    CASE f \in {"latitude", "longitude"} -> 100
      [] f = "moisture" -> 50
      [] f = "temperature" -> 15
      [] f = "ph" -> 2
      [] f = "ec" -> 10
      [] f = "nitrogen" -> 50
      [] f = "phosphorus" -> 30
      [] OTHER -> 100

\* the draws that are explored
\* consecutive readings of one sensor
MaxGenTicks == 2
\* a gauss draw is at most this many sigmas
MaxSigmas == 2
\* a uniform draw is within this many units of an end of its range
DrawWindow == 1
Fractions == {0, 499, 500, 501}

UniformDraws(f) ==
    {r \in [q : (UniformLo(f) .. UniformLo(f) + DrawWindow)
                  \cup (UniformHi(f) - DrawWindow .. UniformHi(f)),
            f : Fractions] : r.q < UniformHi(f) \/ r.f = 0}

GaussDraws(f) ==
    [q : {k * Sigma(f) : k \in -MaxSigmas .. MaxSigmas}, f : Fractions]

\* lines 65-89, one field: round(random.uniform(lo, hi), ndigits)
generate_random_reading(f, u) == round(u)

\* lines 92-130, one field: prev + random.gauss(0, sigma), then what lines
\* 109-118 do with it
vary_reading(f, prev, noise) ==
    LET x == Raw(prev + noise.q, noise.f)
    IN  CASE f \in {"latitude", "longitude", "temperature"} -> round(x)
          [] f \in {"moisture", "ph"} -> round(raw_max(0, raw_min(UniformHi(f), x)))
          [] OTHER -> round(raw_max(0, x))

LoopIdle == program = "none" /\ interval = 0 /\ LoopInit

\* line 208: the first last_readings entry is a full-random reading
InitGen ==
    /\ LoopIdle
    /\ NoWave
    /\ gen_field \in Fields
    /\ gen_value \in {generate_random_reading(gen_field, u) : u \in UniformDraws(gen_field)}
    /\ gen_regime = "initial"
    /\ gen_step = 0
    /\ gen_raw = Raw(0, 0)

\* lines 213-217 and 254: a pass that draws the full-random regime
gen_random ==
    /\ gen_step < MaxGenTicks
    /\ \E u \in UniformDraws(gen_field) :
         /\ gen_raw' = u
         /\ gen_value' = generate_random_reading(gen_field, u)
    /\ gen_regime' = "random"
    /\ gen_step' = gen_step + 1
    /\ UNCHANGED <<loop_vars, wave_vars, gen_field>>

\* lines 218-222 and 254: a pass that draws the continuation regime
gen_vary ==
    /\ gen_step < MaxGenTicks
    /\ \E noise \in GaussDraws(gen_field) :
         /\ gen_raw' = Raw(gen_value + noise.q, noise.f)
         /\ gen_value' = vary_reading(gen_field, gen_value, noise)
    /\ gen_regime' = "vary"
    /\ gen_step' = gen_step + 1
    /\ UNCHANGED <<loop_vars, wave_vars, gen_field>>

NextGen == gen_random \/ gen_vary

SpecGen == InitGen /\ [][NextGen]_vars


(***************************************************************************)
(* insert_wave_mysql.py: generate_values and clamp. Values before rounding *)
(* are in units of 0.00001 (a thousandth of the second decimal place);     *)
(* elapsed and period are whole seconds.                                   *)
(***************************************************************************)
\* 1.0 in units of 0.00001
One == 10 ^ 5

\* math.sin, in thousandths, at steps of 0.1 rad over one turn (6.3 rad)
SinTable ==
    << 0, 100, 199, 296, 389, 479, 565, 644, 717,
       783, 841, 891, 932, 964, 985, 997, 1000, 992,
       974, 946, 909, 863, 808, 746, 675, 598, 516,
       427, 335, 239, 141, 42, -58, -158, -256, -351,
       -443, -530, -612, -688, -757, -818, -872, -916, -952,
       -978, -994, -1000, -996, -982, -959, -926, -883, -832,
       -773, -706, -631, -551, -465, -374, -279, -182, -83 >>

\* math.sin of an angle given in tenths of a radian
sin(a) == SinTable[(a % Len(SinTable)) + 1]

\* line 88: 2.0 * math.pi * (elapsed_seconds / period), in tenths of a radian
\* and reduced by whole turns
angle(elapsed_seconds, p) == ((elapsed_seconds % p) * Len(SinTable)) \div p

\* a value in units of 0.00001 as a number before round(x, 2)
ToRaw(x) == Raw(x \div Thousand, x % Thousand)

\* clamp without its lower end: min(hi, x)
clamp_upper_only(x, lo, hi) == IF hi < x THEN hi ELSE x

\* lines 54-55
clamp(x, lo, hi) ==
    LET m == IF hi < x THEN hi ELSE x
    IN  IF lo > m THEN lo ELSE m

\* lines 90-93: the half-widths of the four random.uniform draws, 0.5, 0.1, 0.02
\* and 0.005, in units of 0.00001
Jitter(name) ==
    CASE name = "moisture" -> 50000
      [] name = "temperature" -> 10000
      [] name = "ph" -> 2000
      [] OTHER -> 500

JitterDraws(name) == {-Jitter(name), 0, Jitter(name)}

\* lines 80-110. noise is the record of the four uniform draws. The phases 0.5,
\* 1.0 and 2.0 rad are 5, 10 and 20 tenths; decay_per_hour / 3600 is 5/9 of a
\* unit per second.
generate_values(elapsed_seconds, p, noise) ==
    LET a == angle(elapsed_seconds, p)
        moisture == 40 * One + 20 * 100 * sin(a) + noise.moisture
        temperature == 18 * One + 5 * 100 * sin(a + 5) + noise.temperature
        ph == 68 * (One \div 10) + 30 * sin(a + 10) + noise.ph
        decay == (5 * elapsed_seconds) \div 9
        battery == 370 * (One \div 100) - decay + 3 * sin(a + 20) + noise.battery
    IN  [moisture |-> clamp(round(ToRaw(moisture)), 0, 100 * 100),
         temperature |-> clamp(round(ToRaw(temperature)), -50 * 100, 100 * 100),
         ph |-> clamp(round(ToRaw(ph)), 0, 14 * 100),
         battery |-> clamp(round(ToRaw(battery)), 0, 10 * 100),
         made |-> TRUE]

\* the runs that are explored: ticks of 4 s from the start, and long runs
MaxShortRun == 4
MaxLongRun == 4
ElapsedTimes ==
    {4 * k : k \in 0 .. MaxShortRun} \cup {200000 * k : k \in 1 .. MaxLongRun}
Periods == {1, 7, 60}

InitWave ==
    /\ LoopIdle
    /\ NoGen
    /\ elapsed = 0
    /\ period \in Periods
    /\ wave = NoValues

\* lines 149-150: time has gone on; generate_values(elapsed, args.period)
wave_generate ==
    /\ \E e \in {t \in ElapsedTimes : t >= elapsed} :
         /\ elapsed' = e
         /\ \E noise \in [moisture : JitterDraws("moisture"),
                          temperature : JitterDraws("temperature"),
                          ph : JitterDraws("ph"),
                          battery : JitterDraws("battery")] :
              wave' = generate_values(e, period, noise)
    /\ UNCHANGED <<loop_vars, gen_vars, period>>

NextWave == wave_generate

SpecWave == InitWave /\ [][NextWave]_vars


(***************************************************************************)
(* Properties of the two loops (Spec).                                     *)
(***************************************************************************)
\* main is past its loop, or an uncaught exception is on its way out of it
LoopEnded == crashing \/ pc \in {"finally", "crashed"}

\* the processing of the current reading is over
ReadingDone == pc \in {"sleep", "sleep_fail", "update_last", "stop_check"}

\* C1: write failures never terminate the loop: whatever the inserts and
\* reconnects do, main leaves its loop only after a cancellation was requested.
C1_WriteFailuresNeverEndLoop == LoopEnded => Requested

\* C2: when the first insert of a reading fails with an unrecoverable error, no
\* reconnect and no further insert is made for that reading, and until the next
\* reading is generated the current handle stays the same handle, neither
\* replaced nor closed (the end of main, which closes it, apart).
C2_UnrecoverableShortCircuits ==
    [][(first = "unrecoverable" /\ pc \notin {"finally", "with_exit"})
          => \/ first' = "none"
             \/ /\ reconnects' = 0
                /\ inserts' = 1
                /\ conn' = conn
                /\ open_handles' = open_handles]_vars

\* C3: when the first insert fails with a connection-level error and the
\* reconnect and the retried insert succeed, there was exactly one reconnect call
\* and there were exactly two inserts of that reading, the second one on the new
\* handle, which is now the current handle; the pass goes on as a stored one and
\* main stays in its loop unless cancellation is requested.
C3_OneRetrySuccess ==
    (first = "transient" /\ reconnect = "ok" /\ retry = "ok")
        => /\ reconnects = 1
           /\ inserts = 2
           /\ att.retry /\ att.reading = reading
           /\ att.conn = conn /\ conn # None /\ conn # conn_at_first
           /\ (WAVE => cur = conn)
           /\ pc # "sleep_fail"
           /\ (LoopEnded => Requested)

C3_Witness ==
    /\ first = "transient" /\ reconnect = "ok" /\ retry = "ok"
    /\ pc = "generate" /\ conn \in open_handles /\ ~Requested

\* C4: in a pass over the list of sensors, whatever fails for one sensor, every
\* sensor of the list is generated and given to an insert in that pass, unless
\* cancellation is requested.
C4_LaterSensorsProcessed ==
    (RW /\ ~stop_requested /\ tick >= 1
        /\ (LoopEnded \/ pc \in {"wait_check", "wait_sleep", "while"}))
        => \A s \in SENSOR_NAMES : attempted[s] = tick

\* C7: in the wave program no insert is started after a KeyboardInterrupt was
\* delivered in the loop.
C7_NoInsertAfterInterrupt == (WAVE /\ cancelled) => after_cancel.inserts = 0

\* C8: when the stop flag is set during the wait between two passes, at most one
\* more slice of 0.1 s is slept, no reading is generated or inserted any more,
\* main goes from the wait to the end, and at the end no connection is open.
C8_StopDuringWait ==
    (RW /\ stop_requested /\ cancel_pc \in {"wait_check", "wait_sleep"})
        => /\ after_cancel.slices <= 1
           /\ after_cancel.generated = 0
           /\ after_cancel.inserts = 0
           /\ pc \in {"wait_check", "wait_sleep", "while", "finally", "stopped"}
           /\ (pc = "wait_sleep" => after_cancel.slices = 0)
           /\ (pc = "stopped" => open_handles = {})

C8_Witness ==
    /\ RW /\ stop_requested /\ cancel_pc = "wait_sleep"
    /\ after_cancel.slices = 1 /\ i = 1 /\ tick = 1
    /\ pc = "stopped"

\* C9, as stated: at most one attempt to open a connection is made for a reading;
\* when it fails the reading is dropped after its one insert, when it succeeds
\* the insert is retried exactly once.
C9_OneOpenAttempt ==
    /\ opens <= 1
    /\ (reconnect = "failed" => inserts = 1)
    /\ (reconnect = "ok" /\ ReadingDone => inserts = 2)

\* C9, amended: at most one reconnect call is made for a reading; the call makes
\* one attempt to open a connection in sensor_inserter.py (connect_db) and up to
\* `attempts` = 3 in insert_wave_mysql.py (try_reconnect). When the call fails
\* the reading is dropped after its one insert, when it succeeds the insert is
\* retried exactly once.
C9_OneReconnectCall ==
    /\ reconnects <= 1
    /\ opens <= (IF WAVE THEN attempts ELSE 1)
    /\ (reconnects = 0 => opens = 0)
    /\ (reconnect = "failed" => inserts = 1 /\ (WAVE => opens = attempts))
    /\ (reconnect = "ok" /\ ReadingDone => inserts = 2)

C9_Witness ==
    /\ WAVE /\ first = "transient" /\ reconnect = "ok"
    /\ opens = attempts /\ inserts = 2 /\ pc = "sleep"

\* C10: every insert is given the reading generated in the current pass for the
\* current sensor; a reading is given to at most two inserts, the second being
\* the retry that follows the first; and per sensor the passes of the readings
\* given to inserts never go back: no reading of an earlier pass is inserted
\* again.
C10_NoReplay ==
    [][inserts' > inserts =>
          /\ att'.reading = reading'
          /\ att'.reading.tick = tick' /\ att'.reading.sensor = sensor'
          /\ inserts' <= 2
          /\ attempted[sensor'] <= att'.reading.tick
          /\ (attempted[sensor'] = att'.reading.tick
                => att'.retry /\ ~att.retry /\ att.reading = att'.reading)]_vars

\* the first insert of pass 2 runs on a handle that was closed in pass 1: the
\* reading of pass 1 was dropped, and pass 2 inserts its own reading
C10_Witness ==
    /\ WAVE /\ tick = 2 /\ inserts = 1 /\ ~att.retry
    /\ att.conn # None /\ att.conn \notin open_handles
    /\ att.reading.tick = 2

\* sensor s has been processed in the current pass: the for loop is past it, or
\* main is at it and past line 254
Processed(s) ==
    \/ s < sensor
    \/ s = sensor /\ pc \in {"stop_check", "wait_check", "wait_sleep", "while"}

\* C11: in the random-walk program, once a sensor has been processed in a pass,
\* last_readings[sensor] is the reading generated for it in that pass, whether
\* the insert stored it at once, the retry stored it, or it was dropped.
C11_LastReadingAdvances ==
    (RW /\ tick >= 1)
        => /\ \A s \in SENSOR_NAMES : Processed(s) => last_readings[s] = Key(s, tick)
           /\ (pc = "stop_check" => reading = Reading(sensor, tick, reading.regime, reading.prev))

\* the reading of pass 2 was dropped (the reconnect failed) and is the last
\* reading of its sensor
C11_Witness ==
    /\ RW /\ tick = 2 /\ pc = "stop_check"
    /\ first = "transient" /\ reconnect = "failed" /\ inserts = 1
    /\ last_readings[sensor] = Key(sensor, 2)

\* the current reading was stored, by its first insert or by the retry
Stored == first = "ok" \/ retry = "ok"

\* the wait between two passes is over and the next pass is about to begin
WaitOver ==
    \/ WAVE /\ pc = "generate" /\ tick >= 1
    \/ RW /\ pc = "while" /\ tick >= 1 /\ ~stop_requested

\* the length of that wait, in tenths of a second: the sleep of the wave
\* program, the slices of 0.1 s of the random-walk program
Wait == IF WAVE THEN waited ELSE i

\* C12, as stated: for every interval > 0 the wait that follows a pass is the
\* configured interval, whether the reading of the pass was stored or not.
C12_SameWait == WaitOver => Wait = interval

\* C12, amended: the wait that follows a pass with a stored reading is the
\* interval; the wait that follows a pass with a dropped reading is the
\* interval in the random-walk program and max(1 s, interval) in the wave
\* program, which is the interval exactly when the interval is at least 1 s.
C12_WaitByOutcome ==
    WaitOver =>
        /\ (Stored \/ RW => Wait = interval)
        /\ (WAVE /\ ~Stored => Wait = max(10, interval))
        /\ (interval >= 10 => Wait = interval)

\* half a second between the passes, and one second after a dropped reading
C12_Witness ==
    /\ WAVE /\ pc = "generate" /\ tick = 1 /\ interval = 5
    /\ first = "unrecoverable" /\ waited = 10

\* the program has stopped: main returned, an exception left it, or the initial
\* connection failed
Ended == pc \in {"stopped", "crashed", "failed_start"}

\* C13: whenever the program stops, by cancellation, by an error that leaves the
\* loop or by a failed startup, no connection handle opened during the run, the
\* initial one or one obtained by a reconnect, is left open.
C13_HandlesReleased == Ended => open_handles = {}

\* C14: when the initial connection cannot be established, main never enters
\* its loop: no reading is generated, no insert is attempted, nothing is left
\* open, and the program has terminated.
C14_StartupFailFast ==
    startup = "failed"
        => /\ pc = "failed_start"
           /\ tick = 0 /\ reading = NoReading
           /\ att = NoAttempt /\ inserts = 0
           /\ \A s \in SENSOR_NAMES : attempted[s] = 0
           /\ conn = None /\ open_handles = {}

\* try_reconnect gave up after its last attempt at startup
C14_Witness ==
    /\ WAVE /\ startup = "failed" /\ pc = "failed_start" /\ i = attempts

\* the first insert of the current reading failed and no retry stored it
Dropped == first \notin {"none", "ok"} /\ retry # "ok"

\* C15, as stated: a pass in which the reading is dropped writes exactly one
\* error record for it, and a pass whose reading is stored by the first insert
\* writes none.
C15_OneDiagnostic ==
    ReadingDone
        => /\ (Dropped => diagnostics = 1)
           /\ (first = "ok" => diagnostics = 0)

\* C15, amended: a pass in which the reading is dropped writes one error record
\* for each step that failed: one for the first insert, and one more for the
\* reconnect or the retry that failed after it, so one or two; a pass whose
\* reading is stored by the first insert writes none. One record: the wave
\* program after an unrecoverable error, the random-walk program when
\* connect_db returns None without an Error, or when insert_reading(None)
\* raised (the traceback). Two records in every other case.
C15_DiagnosticPerFailedStep ==
    (ReadingDone \/ pc = "crashed")
        => /\ (first = "ok" => diagnostics = 0)
           /\ (first \notin {"none", "ok"} /\ retry = "ok" => diagnostics = 1)
           /\ (Dropped => diagnostics \in {1, 2})
           /\ (Dropped /\ WAVE => diagnostics = (IF first = "unrecoverable" THEN 1 ELSE 2))
           /\ (Dropped /\ RW /\ retry = "failed" => diagnostics = 2)
           /\ (first = "attribute_error" => diagnostics = 1)

\* the insert failed, connect_db logged its own error: two records, one reading
C15_Witness ==
    /\ RW /\ pc = "stop_check" /\ first = "transient" /\ reconnect = "failed"
    /\ inserts = 1 /\ diagnostics = 2

\* a first insert of a reading of the random-walk program is being made
FirstInsert == RW /\ inserts' > inserts /\ ~att'.retry

\* C16, as stated: the first reading of a sensor that is given to an insert was
\* made by the full-random regime, and a continuation reading is derived from
\* the reading most recently given to an insert for the same sensor.
C16_FirstEmittedIsRandom ==
    [][FirstInsert =>
          IF attempted[sensor'] = 0
          THEN att'.reading.regime = "random"
          ELSE att'.reading.regime = "vary"
                   => att'.reading.prev = Key(sensor', attempted[sensor'])]_vars

\* C16, amended: the first reading of a sensor that is given to an insert was
\* made by the full-random regime or is the continuation of the full-random
\* reading that line 208 made for that sensor at startup, which is given to no
\* insert; every later continuation reading is derived from the reading most
\* recently given to an insert for the same sensor.
C16_FirstEmittedFromSeed ==
    [][FirstInsert =>
          /\ att'.reading.regime \in {"random", "vary"}
          /\ att'.reading.regime = "vary"
                => att'.reading.prev = Key(sensor', attempted[sensor'])]_vars

\* the first reading given to an insert for the second sensor continues the
\* reading of line 208
C16_Witness ==
    /\ RW /\ tick = 1 /\ sensor = 2 /\ inserts = 1 /\ pc = "update_last"
    /\ att.reading.regime = "vary" /\ att.reading.prev = Key(2, 0)

\* C18: no insert is attempted on a handle that the program has closed, nor on
\* a missing handle (None); an insert that follows a reconnect runs on the
\* handle that a successful open has just returned.
C18_NoInsertOnDeadHandle ==
    [][inserts' > inserts =>
          /\ att'.conn # None
          /\ att'.conn \in open_handles
          /\ (att'.retry => reconnect = "ok" /\ att'.conn = conn)]_vars

\* the first insert of the current reading has failed and main is between it
\* and the retry
OnRetryPath ==
    inserts = 1 /\ pc \in {"close_old", "reconnect", "open_conn", "reconnect_delay", "retry"}

\* C19: the retried insert of a pass is given exactly what the failed first
\* insert was given: the same reading, and in the random-walk program the same
\* recorded_at and sensor; nothing is generated and no regime is drawn between
\* the first insert and the retry.
C19_RetrySendsSameReading ==
    [][/\ (OnRetryPath
             => /\ reading' = reading /\ recorded_at' = recorded_at
                /\ sensor' = sensor /\ tick' = tick
                /\ pc' # "generate")
       /\ (inserts' > inserts /\ att'.retry
             => /\ inserts = 1 /\ ~att.retry
                /\ att'.reading = att.reading /\ att'.reading = reading
                /\ att'.sensor = att.sensor
                /\ att'.recorded_at = att.recorded_at)]_vars

\* the retry for the second sensor carries the timestamp taken before the first
\* insert, three blocking calls earlier
C19_Witness ==
    /\ RW /\ sensor = 2 /\ inserts = 2 /\ att.retry /\ pc = "update_last"
    /\ att.recorded_at = recorded_at /\ recorded_at >= 1 /\ now = recorded_at + 3

\* the positions of sensor_inserter.py's main inside the body of the for loop
\* (lines 213-258)
MidTick == {"generate", "insert", "close_old", "reconnect", "retry", "update_last",
            "stop_check"}

\* C20: when the stop flag is set while a sensor is being processed, the
\* processing of that sensor is completed, the reconnect, the retry and the
\* update of its last reading included; no later sensor of the list is generated
\* or inserted in the pass; no slice of the wait is slept; and main leaves its
\* loop.
C20_StopMidTick ==
    (RW /\ stop_requested /\ cancel_pc \in MidTick)
        => /\ after_cancel.slices = 0 /\ pc # "wait_sleep"
           /\ after_cancel.generated <= (IF cancel_pc = "generate" THEN 1 ELSE 0)
           /\ \A s \in SENSOR_NAMES :
                 s > sensor => attempted[s] < tick /\ last_readings[s] # Key(s, tick)
           /\ (pc \notin MidTick
                 => /\ last_readings[sensor] = Key(sensor, tick)
                    /\ attempted[sensor] = tick
                    /\ ~crashing)
           /\ (pc = "stopped" => open_handles = {})

(***************************************************************************)
(* Properties of the values (SpecGen, SpecWave).                           *)
(***************************************************************************)
\* the clamp ranges of the random-walk program's fields; no upper end for ec,
\* nitrogen, phosphorus and potassium
InClampRange(f, v) ==
    CASE f \in {"latitude", "longitude", "moisture", "temperature", "ph"}
           -> UniformLo(f) <= v /\ v <= UniformHi(f)
      [] OTHER -> 0 <= v

\* C5: every reading of the random-walk program has latitude in [-90, 90],
\* longitude in [-180, 180], moisture in [0, 100], temperature in [-10, 50], ph
\* in [0, 14] and ec, nitrogen, phosphorus, potassium >= 0.
C5_RandomWalkWithinClampRange ==
    gen_field \in Fields => InClampRange(gen_field, gen_value)

\* C6: generate_values returns moisture in [0, 100], temperature in [-50, 100],
\* ph in [0, 14] and battery voltage in [0, 10] (in hundredths), for every
\* elapsed time, period and jitter.
C6_WaveWithinClampRange ==
    wave.made =>
        /\ 0 <= wave.moisture /\ wave.moisture <= 100 * 100
        /\ -50 * 100 <= wave.temperature /\ wave.temperature <= 100 * 100
        /\ 0 <= wave.ph /\ wave.ph <= 14 * 100
        /\ 0 <= wave.battery /\ wave.battery <= 10 * 100

\* the decay has used up the 3.70 V baseline and the battery value is held at 0
C6_Witness ==
    /\ wave.made /\ wave.battery = 0
    /\ (5 * elapsed) \div 9 > 370 * (One \div 100) + 3 * Thousand

\* a rounded value held to the clamp range of its field
InRange(f, v) ==
    CASE f \in {"latitude", "longitude", "moisture", "temperature", "ph"}
           -> clamp(v, UniformLo(f), UniformHi(f))
      [] OTHER -> max(0, v)

\* C17: every field is rounded to its precision first and clamped to its range
\* last: the value of a reading is clamp(round(raw)), and for every field of the
\* continuation regime the value that vary_reading returns is
\* clamp(round(previous + noise)), for every previous value and every draw.
C17_RoundThenClamp ==
    gen_regime \in {"random", "vary"}
        => gen_value = InRange(gen_field, round(gen_raw))

====
